---------------------------- MODULE Spec2Model ----------------------------
(***************************************************************************)
(* Model of the data-usage report pipeline of data-usage-report/main.py    *)
(* (gen_report and the five create_*_table stages it runs inside one       *)
(* transaction against the ICAT catalog, and what main does with the       *)
(* outcome), and of the trash utility ensure_trash_ts.py.                  *)
(*                                                                         *)
(* Catalog tables are sets of records named after the ICAT columns the     *)
(* queries read.  SQL tables are bags: a row of proj_data / pub_proj_data  *)
(* keeps in the field `rid' the identity of the r_data_main row it was     *)
(* selected from (data_repl_num), so that two selected rows that agree on  *)
(* every selected column remain two rows.                                  *)
(* Character data that the queries pattern-match (collection paths, the    *)
(* zone name) are sequences of one-character strings.                      *)
(* Byte volumes are integers; the report's NUMERIC values with 3 decimals  *)
(* are integers counting thousandths of a GiB.                             *)
(***************************************************************************)
EXTENDS Integers, Sequences, FiniteSets, TLC

VARIABLES
    r_zone_main,     \* catalog: zones             [zone_name, zone_type_name]
    r_resc_main,     \* catalog: resources         [resc_id, resc_name, resc_net, resc_parent]
    r_coll_main,     \* catalog: collections       [coll_id, coll_name, coll_owner_name]
    r_data_main,     \* catalog: replicas          [data_id, data_repl_num, coll_id, data_size, resc_id]
    r_user_main,     \* catalog: users             [user_id, user_name]
    r_objt_access,   \* catalog: access entries    [object_id, user_id, access_type_id]
    root_resources,  \* args.resources, the list handed to gen_report
    zone,            \* local_zone returned by get_local_zone
    pc,              \* position of main/gen_report
    temp,            \* temporary tables that exist in the session
    resc_hier,       \* recursive CTE: rows accumulated so far
    working,         \* recursive CTE: working table of the current iteration
    store_resc,      \* temporary table store_resc  (id)
    proj_coll,       \* temporary table proj_coll   (proj, coll_id)
    proj_data,       \* temporary table proj_data   (proj, coll_id, data_id, data_size)
    pub_obj,         \* temporary table pub_obj     (id)
    pub_proj_data,   \* temporary table pub_proj_data (proj, data_id, data_size)
    result,          \* <<the DataFrame gen_report returned>>, or NoResult
    err,             \* the exception that ended the run, or "none"
    committed,       \* the catalog as committed, which every other session sees
    commits,         \* transactions other sessions have committed so far
    runs,            \* number of the current call of gen_report on the engine
    first,           \* outcome of the first call of gen_report
    saved,           \* the JSON snapshot of the report has been written
    rendered,        \* the report has been rendered (console or HTML)
    reported,        \* the error main printed, or "none"
    exit_status,     \* exit status of the process, -1 while it runs
    entries,         \* trash utility: collections and data objects that exist
    metadata,        \* trash utility: the AVUs of each entry
    clock,           \* trash utility: int(time.time())
    sess,            \* trash utility: position of add_trash_timestamp
    todo,            \* trash utility: entries the walk has still to reach
    walks            \* trash utility: runs of add_trash_timestamp completed

catalog == <<r_zone_main, r_resc_main, r_coll_main, r_data_main, r_user_main, r_objt_access>>
tables  == <<store_resc, proj_coll, proj_data, pub_obj, pub_proj_data>>
mainvars  == <<saved, rendered, reported, exit_status>>
trashvars == <<entries, metadata, clock, sess, todo, walks>>
\* what no step of gen_report itself changes
env     == <<committed, commits, runs, first, mainvars, trashvars>>
report  == <<catalog, root_resources, zone, pc, temp, resc_hier, working, tables, result, err,
             committed, commits, runs, first, mainvars>>
vars    == <<catalog, root_resources, zone, pc, temp, resc_hier, working, tables, result, err,
             env>>

(***************************************************************************)
(* Bounds of the model.                                                    *)
(***************************************************************************)
NumResc  == 3   \* resources in the catalog, identifiers 1..NumResc
MaxRoots == 2   \* longest root-resource list

(***************************************************************************)
(* Literals of the program.                                                *)
(***************************************************************************)
EMPTY_RESC_HOST == "EMPTY_RESC_HOST"
PUBLIC          == "public"
NoResult        == <<>>            \* gen_report has returned nothing
NoZone          == <<>>            \* get_local_zone has returned nothing
NULL            == [null |-> TRUE] \* the NULL row of an outer join

Home_shared  == <<"/", "h", "o", "m", "e", "/", "s", "h", "a", "r", "e", "d">>
Commons_repo == <<"c", "o", "m", "m", "o", "n", "s", "_", "r", "e", "p", "o">>

\* '/{zone}/home/shared/%'
LikePattern(z) == <<"/">> \o z \o Home_shared \o <<"/", "%">>
\* variant: the pattern without its optional group
SimilarPattern_NoGroup(z) == <<"/">> \o z \o Home_shared \o <<"/">> \o Commons_repo

\* '/{zone}/home/shared/commons_repo(/%)?'
SimilarPattern(z) ==
    <<"/">> \o z \o Home_shared \o <<"/">> \o Commons_repo \o <<"(", "/", "%", ")", "?">>
\* the literal head of the regular expression '/{zone}/home/shared/([^/]+).*'
RegexpHead(z) == <<"/">> \o z \o Home_shared \o <<"/">>

(***************************************************************************)
(* String operations of the SQL dialect.                                   *)
(***************************************************************************)
\* s LIKE p: % matches any string, _ any one character
RECURSIVE LikeMatch(_, _)
LikeMatch(p, s) ==
    IF p = <<>> THEN s = <<>>
    ELSE IF Head(p) = "%"
         THEN LikeMatch(Tail(p), s) \/ (s # <<>> /\ LikeMatch(p, Tail(s)))
         ELSE /\ s # <<>>
              /\ (Head(p) = "_" \/ Head(p) = Head(s))
              /\ LikeMatch(Tail(p), Tail(s))

IndexOf(c, p) ==
    IF \E i \in 1..Len(p) : p[i] = c
    THEN CHOOSE i \in 1..Len(p) : p[i] = c /\ \A j \in 1..(i - 1) : p[j] # c
    ELSE 0

\* s SIMILAR TO p, for a pattern with at most one optional group "(...)?":
\* the whole string matches the pattern with or without the group; outside the
\* group metacharacters, % and _ mean what they mean in LIKE.
SimilarTo(s, p) ==
    LET o == IndexOf("(", p)
        c == IndexOf(")", p)
    IN  IF o = 0 THEN LikeMatch(p, s)
        ELSE LET pre   == SubSeq(p, 1, o - 1)
                 group == SubSeq(p, o + 1, c - 1)
                 post  == SubSeq(p, c + 2, Len(p))   \* skips ")?"
             IN  \/ LikeMatch(pre \o post, s)
                 \/ LikeMatch(pre \o group \o post, s)

IsPrefixAt(h, s, i) ==
    /\ i + Len(h) - 1 <= Len(s)
    /\ \A k \in 1..Len(h) : s[i + k - 1] = h[k]

\* the longest run of characters other than "/" that starts at position i
RECURSIVE SegmentAt(_, _)
SegmentAt(s, i) ==
    IF i > Len(s) \/ s[i] = "/" THEN <<>>
    ELSE <<s[i]>> \o SegmentAt(s, i + 1)

\* REGEXP_REPLACE(s, head || '([^/]+).*', '\1'): the first (leftmost) match is
\* replaced by its group 1; [^/]+ and .* are greedy, so group 1 is the whole
\* segment after the head and the match runs to the end of the string.  A
\* string without a match is returned unchanged.
RegexpReplace(s, head) ==
    LET Matches(i) == IsPrefixAt(head, s, i) /\ SegmentAt(s, i + Len(head)) # <<>>
    IN  IF \E i \in 1..Len(s) : Matches(i)
        THEN LET i == CHOOSE i \in 1..Len(s) :
                          Matches(i) /\ \A j \in 1..(i - 1) : ~Matches(j)
             IN  SubSeq(s, 1, i - 1) \o SegmentAt(s, i + Len(head))
        ELSE s


(***************************************************************************)
(* The catalogs the runs start from.                                       *)
(***************************************************************************)
ZoneX == <<"z", "o", "n", "e", "X">>
Proj1 == <<"p", "r", "o", "j", "1">>

SharedRoot == <<"/">> \o ZoneX \o Home_shared
Below(p, seg) == p \o <<"/">> \o seg

\* collections: the shared-projects root, a project and a collection inside it,
\* the reserved collection with two levels below it, two siblings whose names
\* resemble the reserved one (a longer name, and one that differs in the
\* character the patterns treat as a wildcard), and a collection outside the
\* shared root
Collections ==
    { [coll_id |-> 11, coll_name |-> SharedRoot, coll_owner_name |-> "rods"],
      [coll_id |-> 12, coll_name |-> Below(SharedRoot, Proj1), coll_owner_name |-> "alice"],
      [coll_id |-> 13, coll_name |-> Below(Below(SharedRoot, Proj1), <<"s", "u", "b">>),
       coll_owner_name |-> "bob"],
      [coll_id |-> 14, coll_name |-> Below(SharedRoot, Commons_repo), coll_owner_name |-> "rods"],
      [coll_id |-> 15, coll_name |-> Below(Below(SharedRoot, Commons_repo), <<"x">>),
       coll_owner_name |-> "alice"],
      [coll_id |-> 16, coll_name |-> Below(SharedRoot, Commons_repo \o <<"2">>),
       coll_owner_name |-> "bob"],
      [coll_id |-> 17,
       coll_name |-> Below(Below(Below(SharedRoot, Commons_repo), <<"x">>), <<"y">>),
       coll_owner_name |-> "alice"],
      [coll_id |-> 19,
       coll_name |-> Below(SharedRoot, <<"c", "o", "m", "m", "o", "n", "s", "-", "r", "e", "p", "o">>),
       coll_owner_name |-> "bob"],
      [coll_id |-> 18, coll_name |-> <<"/">> \o ZoneX \o <<"/", "h", "o", "m", "e", "/", "a">>,
       coll_owner_name |-> "alice"] }

RescIds == 1..NumResc
RescName(i) == "res" \o ToString(i)
Nets == {EMPTY_RESC_HOST, "host"}
\* r_resc_main.resc_parent is a text column: '' for a root, else the parent's id
Parents == {""} \cup {ToString(i) : i \in RescIds}

RescTable(net, par) ==
    { [resc_id |-> i, resc_name |-> RescName(i), resc_net |-> net[i], resc_parent |-> par[i]] :
      i \in RescIds }

\* a coordinating root with every other resource a storage leaf below it
TreeResc ==
    RescTable([i \in RescIds |-> IF i = 1 THEN EMPTY_RESC_HOST ELSE "host"],
              [i \in RescIds |-> IF i = 1 THEN "" ELSE "1"])

RootNames == <<RescName(1), RescName(2), "nope">>
\* root lists: every selection of names in order, up to MaxRoots long, the empty
\* list among them, and a list that repeats a name
RootLists ==
    { <<>>, <<RescName(1), RescName(1)>> } \cup
    UNION { { [k \in 1..n |-> RootNames[f[k]]] :
              f \in { g \in [1..n -> 1..Len(RootNames)] :
                        \A a, b \in 1..n : a < b => g[a] < g[b] } } :
            n \in 1..MaxRoots }

\* bytes of replica k of data object d
SizeOf(d, k) ==
    CASE d = 21 -> 644246          \* 0.0006 GiB
      [] d = 22 -> IF k = 0 THEN 858994 ELSE 0   \* 0.0008 GiB, and a stale empty replica
      [] d = 23 -> 1073742         \* 0.001 GiB
      [] OTHER  -> 5

Replica(d, c, k, r) ==
    [data_id |-> d, data_repl_num |-> k, coll_id |-> c, data_size |-> SizeOf(d, k), resc_id |-> r]

\* a data object is absent, has one replica, or has replicas 0 and 1 on two
\* different resources (a replication hierarchy keeps one replica per child)
ReplicaSets(d, c) ==
    { {} } \cup
    { {Replica(d, c, 0, r)} : r \in RescIds \ {1} } \cup
    { {Replica(d, c, 0, r[1]), Replica(d, c, 1, r[2])} :
      r \in { q \in (RescIds \ {1}) \X (RescIds \ {1}) : q[1] < q[2] } }

Users ==
    { [user_id |-> 31, user_name |-> PUBLIC], [user_id |-> 32, user_name |-> "alice"] }

Ace(o, u) == [object_id |-> o, user_id |-> u, access_type_id |-> IF u = 31 THEN 1050 ELSE 1200]

OwnerAces == { Ace(o, 32) : o \in {12, 13, 15, 21, 22, 23} }

LocalZone == { [zone_name |-> ZoneX, zone_type_name |-> "local"],
               [zone_name |-> <<"o", "t", "h", "e", "r">>, zone_type_name |-> "remote"] }

\* every resource table and every root list, with one fixed set of data objects
InitResc ==
    /\ r_zone_main = LocalZone
    /\ r_coll_main = { c \in Collections : c.coll_id \in {12, 13} }
    /\ \E net \in [RescIds -> Nets], par \in [RescIds -> Parents] :
          r_resc_main = RescTable(net, par)
    /\ root_resources \in RootLists
    /\ r_data_main = {Replica(21, 12, 0, 2), Replica(22, 13, 0, NumResc)}
    /\ r_user_main = Users
    /\ r_objt_access = {Ace(12, 32), Ace(12, 31), Ace(21, 31)}

\* one resource tree; every placement of the data objects and of the public entries
InitData ==
    /\ r_zone_main = LocalZone
    /\ r_coll_main = Collections
    /\ r_resc_main = TreeResc
    /\ root_resources \in { <<RescName(1)>>, <<RescName(2)>> }
    /\ \E d1 \in ReplicaSets(21, 12), d2 \in ReplicaSets(22, 13),
          d3 \in { {} } \cup { {Replica(23, c, 0, 2)} : c \in {14, 15, 17} },
          d4 \in { {}, {Replica(24, 16, 0, 2)} } :
             r_data_main = d1 \cup d2 \cup d3 \cup d4
    /\ r_user_main = Users
    /\ \E pub \in SUBSET {12, 13, 21, 22}, rest \in { {}, {14, 15, 16, 17, 23, 24} } :
          r_objt_access = OwnerAces \cup { Ace(o, 31) : o \in pub \cup rest }

\* the zone and user tables: no local zone, no user or two users named 'public'
InitUsers ==
    /\ r_zone_main \in { LocalZone, {r \in LocalZone : r.zone_type_name # "local"} }
    /\ r_coll_main = Collections
    /\ r_resc_main = TreeResc
    /\ root_resources = <<RescName(1)>>
    /\ r_data_main = {Replica(21, 12, 0, 2), Replica(22, 13, 0, 2)}
    /\ r_user_main \in { Users, {u \in Users : u.user_name # PUBLIC},
                         Users \cup {[user_id |-> 33, user_name |-> PUBLIC]} }
    /\ r_objt_access = OwnerAces \cup {Ace(12, 31), Ace(21, 31), Ace(13, 33), Ace(22, 33)}

\* one coordinating root resource with one storage leaf below it, one project
\* collection owned by alice that holds one data object of 2^30 bytes on the
\* leaf, the collection and the object both readable by 'public'
InitScenario ==
    /\ r_zone_main = LocalZone
    /\ r_coll_main = { c \in Collections : c.coll_id = 12 }
    /\ r_resc_main =
          { [resc_id |-> 1, resc_name |-> "resA", resc_net |-> EMPTY_RESC_HOST, resc_parent |-> ""],
            [resc_id |-> 2, resc_name |-> "resA-leaf", resc_net |-> "host", resc_parent |-> "1"] }
    /\ root_resources = <<"resA">>
    /\ r_data_main = { [data_id |-> 25, data_repl_num |-> 0, coll_id |-> 12,
                        data_size |-> 2^30, resc_id |-> 2] }
    /\ r_user_main = Users
    /\ r_objt_access = {Ace(12, 32), Ace(25, 32), Ace(12, 31), Ace(25, 31)}

\* one resource tree and one set of data objects, with root lists that are
\* empty, name no resource, or name a leaf
InitRoots ==
    /\ r_zone_main = LocalZone
    /\ r_coll_main = Collections
    /\ r_resc_main = TreeResc
    /\ root_resources \in { <<>>, <<"nope">>, <<RescName(2)>> }
    /\ r_data_main = {Replica(21, 12, 0, 2), Replica(22, 13, 0, 2)}
    /\ r_user_main = Users
    /\ r_objt_access = OwnerAces \cup {Ace(12, 31), Ace(21, 31)}

\* the six catalog tables as one value
Committed ==
    [r_zone_main |-> r_zone_main, r_resc_main |-> r_resc_main, r_coll_main |-> r_coll_main,
     r_data_main |-> r_data_main, r_user_main |-> r_user_main, r_objt_access |-> r_objt_access]

\* how a call of gen_report ended: the exception it raised and what it returned
Outcome == [err |-> err, result |-> result]
NoOutcome == [err |-> "none", result |-> NoResult]

\* the state when main starts
Start ==
    /\ zone = NoZone
    /\ pc = "get_local_zone"
    /\ temp = {}
    /\ resc_hier = {}
    /\ working = {}
    /\ store_resc = {}
    /\ proj_coll = {}
    /\ proj_data = {}
    /\ pub_obj = {}
    /\ pub_proj_data = {}
    /\ result = NoResult
    /\ err = "none"
    /\ committed = Committed
    /\ commits = 0
    /\ runs = 1
    /\ first = NoOutcome
    /\ saved = FALSE
    /\ rendered = FALSE
    /\ reported = "none"
    /\ exit_status = -1

\* the trash utility is a program of its own: it does not run with the report
NoTrash ==
    /\ entries = {}
    /\ metadata = [e \in {} |-> {}]
    /\ clock = 0
    /\ sess = "idle"
    /\ todo = {}
    /\ walks = 0

Init == (InitData \/ InitUsers \/ InitScenario) /\ Start /\ NoTrash

InitResolver == InitResc /\ Start /\ NoTrash

(***************************************************************************)
(* main: get_local_zone, then gen_report.                                  *)
(***************************************************************************)
\* variant: the tables were created outside the transaction (autocommit), and
\* the exception leaves them and their rows in the session
Fail_KeepTables(e) ==
    /\ pc' = "failed"
    /\ err' = e
    /\ resc_hier' = {}
    /\ working' = {}
    /\ UNCHANGED <<catalog, root_resources, zone, result, temp, tables>>

\* An exception leaves the `with engine.begin()' block: the transaction is
\* rolled back, and with it every temporary table created inside it.
Fail(e) ==
    /\ pc' = "failed"
    /\ err' = e
    /\ temp' = {}
    /\ resc_hier' = {}
    /\ working' = {}
    /\ store_resc' = {}
    /\ proj_coll' = {}
    /\ proj_data' = {}
    /\ pub_obj' = {}
    /\ pub_proj_data' = {}
    /\ UNCHANGED <<catalog, root_resources, zone, result>>

\* SELECT zone_name FROM r_zone_main WHERE zone_type_name = 'local'; fetchone()[0]
GetLocalZone ==
    /\ UNCHANGED env
    /\ pc = "get_local_zone"
    /\ LET rows == {r \in r_zone_main : r.zone_type_name = "local"}
       IN  IF rows = {}
           THEN /\ pc' = "failed"
                /\ err' = "TypeError"
                /\ UNCHANGED zone
           ELSE /\ \E r \in rows : zone' = r.zone_name
                /\ pc' = "begin"
                /\ UNCHANGED err
    /\ UNCHANGED <<catalog, root_resources, temp, resc_hier, working, tables, result>>

\* with engine.begin() as conn: SET TRANSACTION ISOLATION LEVEL REPEATABLE READ
BeginTransaction ==
    /\ UNCHANGED env
    /\ pc = "begin"
    /\ pc' = "create_store_resc"
    /\ UNCHANGED <<catalog, root_resources, zone, temp, resc_hier, working, tables, result, err>>

(***************************************************************************)
(* Step 1: create_store_resc_table.  The statement is one WITH RECURSIVE   *)
(* query; the database evaluates it by iterating a working table.          *)
(***************************************************************************)
HierRow(m) == [resc_id |-> m.resc_id, resc_net |-> m.resc_net]

\* SELECT resc_id, resc_net FROM r_resc_main WHERE resc_name IN (<root_resources>)
SeedRows ==
    { HierRow(m) : m \in { x \in r_resc_main :
                             \E k \in 1..Len(root_resources) : x.resc_name = root_resources[k] } }

\* variant: the filter tests the joined resource instead of the one expanded from
RecursiveTerm_NetOfChild(w) ==
    { HierRow(m) : m \in { x \in r_resc_main :
                             \E h \in w : /\ x.resc_parent = ToString(h.resc_id)
                                          /\ x.resc_net = EMPTY_RESC_HOST } }

\* variant: the recursive term without its WHERE clause
RecursiveTerm_NoFilter(w) ==
    { HierRow(m) : m \in { x \in r_resc_main :
                             \E h \in w : x.resc_parent = ToString(h.resc_id) } }

\* SELECT m.resc_id, m.resc_net FROM resc_hier AS h JOIN r_resc_main AS m
\*   ON m.resc_parent = h.resc_id::TEXT WHERE h.resc_net = 'EMPTY_RESC_HOST'
\* with h ranging over the working table w
RecursiveTerm(w) ==
    { HierRow(m) : m \in { x \in r_resc_main :
                             \E h \in w : /\ x.resc_parent = ToString(h.resc_id)
                                          /\ h.resc_net = EMPTY_RESC_HOST } }

\* variant: UNION ALL, which discards nothing
UnionNew_All(rows, sofar) == rows

\* UNION: rows that duplicate a row of the result so far are discarded
UnionNew(rows, sofar) == rows \ sofar

\* variant: an empty list selects no seed row instead of being rejected
CreateStoreResc_EmptyAsNone ==
    /\ UNCHANGED env
    /\ pc = "create_store_resc"
    /\ temp' = temp \cup {"store_resc"}
    /\ resc_hier' = SeedRows
    /\ working' = SeedRows
    /\ pc' = "resc_hier"
    /\ UNCHANGED <<catalog, root_resources, zone, tables, result, err>>

\* creates the table and its index, builds the query text and starts the query:
\* an empty list renders as "IN ()", which the database rejects
CreateStoreResc ==
    /\ UNCHANGED env
    /\ pc = "create_store_resc"
    /\ IF "store_resc" \in temp
       THEN Fail("DuplicateTable")
       ELSE IF root_resources = <<>>
       THEN Fail("SyntaxError")
       ELSE /\ temp' = temp \cup {"store_resc"}
            /\ resc_hier' = SeedRows
            /\ working' = SeedRows
            /\ pc' = "resc_hier"
            /\ UNCHANGED <<catalog, root_resources, zone, tables, result, err>>

\* one iteration of the recursive term
RecursiveStep ==
    /\ UNCHANGED env
    /\ pc = "resc_hier"
    /\ working # {}
    /\ LET new == UnionNew(RecursiveTerm(working), resc_hier)
       IN  /\ resc_hier' = resc_hier \cup new
           /\ working' = new
    /\ UNCHANGED <<catalog, root_resources, zone, pc, temp, tables, result, err>>

\* the working table is empty: INSERT INTO store_resc (id) SELECT resc_id FROM resc_hier
InsertStoreResc ==
    /\ UNCHANGED env
    /\ pc = "resc_hier"
    /\ working = {}
    /\ store_resc' = { [id |-> h.resc_id] : h \in resc_hier }
    /\ pc' = "create_proj_coll"
    /\ UNCHANGED <<catalog, root_resources, zone, temp, resc_hier, working,
                   proj_coll, proj_data, pub_obj, pub_proj_data, result, err>>

(***************************************************************************)
(* Step 2: create_proj_coll_table.                                         *)
(***************************************************************************)
ProjCollColumns == {"proj", "coll_id"}

\* WHERE c.coll_name LIKE '/{zone}/home/shared/%'
\*   AND c.coll_name NOT SIMILAR TO '/{zone}/home/shared/commons_repo(/%)?'
Classified(c) ==
    /\ LikeMatch(LikePattern(zone), c.coll_name)
    /\ ~SimilarTo(c.coll_name, SimilarPattern(zone))

ProjCollRows ==
    { [proj |-> RegexpReplace(c.coll_name, RegexpHead(zone)), coll_id |-> c.coll_id] :
      c \in { x \in r_coll_main : Classified(x) } }

CreateProjColl ==
    /\ UNCHANGED env
    /\ pc = "create_proj_coll"
    /\ IF "proj_coll" \in temp
       THEN Fail("DuplicateTable")
       ELSE /\ temp' = temp \cup {"proj_coll"}
            /\ proj_coll' = ProjCollRows
            /\ pc' = "create_proj_data"
            /\ UNCHANGED <<catalog, root_resources, zone, resc_hier, working,
                           store_resc, proj_data, pub_obj, pub_proj_data, result, err>>

(***************************************************************************)
(* Step 3: create_proj_data_table.                                         *)
(***************************************************************************)
\* variant: any resource of the catalog qualifies
OnStoreResc_AnyResc(d) == \E m \in r_resc_main : m.resc_id = d.resc_id

\* WHERE d.resc_id IN (SELECT id FROM store_resc)
OnStoreResc(d) == \E s \in store_resc : s.id = d.resc_id

\* SELECT c.proj, c.coll_id, d.data_id, d.data_size
\* FROM proj_coll AS c JOIN r_data_main AS d ON d.coll_id = c.coll_id WHERE ...
ProjDataRows ==
    { [proj |-> j[1].proj, coll_id |-> j[1].coll_id, data_id |-> j[2].data_id,
       data_size |-> j[2].data_size, rid |-> j[2].data_repl_num] :
      j \in { q \in proj_coll \X r_data_main :
                q[2].coll_id = q[1].coll_id /\ OnStoreResc(q[2]) } }

CreateProjData ==
    /\ UNCHANGED env
    /\ pc = "create_proj_data"
    /\ IF "proj_data" \in temp
       THEN Fail("DuplicateTable")
       ELSE /\ temp' = temp \cup {"proj_data"}
            /\ proj_data' = ProjDataRows
            /\ pc' = "create_pub_obj"
            /\ UNCHANGED <<catalog, root_resources, zone, resc_hier, working,
                           store_resc, proj_coll, pub_obj, pub_proj_data, result, err>>

(***************************************************************************)
(* Step 4: create_pub_obj_table.                                           *)
(***************************************************************************)
\* (SELECT user_id FROM r_user_main WHERE user_name = 'public')
PublicUserIds == { u.user_id : u \in { x \in r_user_main : x.user_name = PUBLIC } }

\* SELECT object_id FROM r_objt_access WHERE user_id = (<scalar subquery>):
\* no row in the subquery compares with NULL and selects nothing
PubObjRows ==
    { [id |-> a.object_id] : a \in { x \in r_objt_access : x.user_id \in PublicUserIds } }

\* a scalar subquery that returns more than one row is an error
CreatePubObj ==
    /\ UNCHANGED env
    /\ pc = "create_pub_obj"
    /\ IF "pub_obj" \in temp
       THEN Fail("DuplicateTable")
       ELSE IF Cardinality(PublicUserIds) > 1
       THEN Fail("CardinalityViolation")
       ELSE /\ temp' = temp \cup {"pub_obj"}
            /\ pub_obj' = PubObjRows
            /\ pc' = "create_pub_proj_data"
            /\ UNCHANGED <<catalog, root_resources, zone, resc_hier, working,
                           store_resc, proj_coll, proj_data, pub_proj_data, result, err>>

(***************************************************************************)
(* Step 5: create_pub_proj_data_table.                                     *)
(***************************************************************************)
InPubObj(i) == \E o \in pub_obj : o.id = i

\* variant: the collection is not tested
IsPublicRow_DataOnly(a) == InPubObj(a.data_id)

\* WHERE coll_id IN (SELECT id FROM pub_obj) AND data_id IN (SELECT id FROM pub_obj)
IsPublicRow(a) == InPubObj(a.coll_id) /\ InPubObj(a.data_id)

\* SELECT proj, data_id, data_size FROM proj_data WHERE ...
PubProjDataRows ==
    { [proj |-> a.proj, data_id |-> a.data_id, data_size |-> a.data_size, rid |-> a.rid] :
      a \in { x \in proj_data : IsPublicRow(x) } }

CreatePubProjData ==
    /\ UNCHANGED env
    /\ pc = "create_pub_proj_data"
    /\ IF "pub_proj_data" \in temp
       THEN Fail("DuplicateTable")
       ELSE /\ temp' = temp \cup {"pub_proj_data"}
            /\ pub_proj_data' = PubProjDataRows
            /\ pc' = "final_report"
            /\ UNCHANGED <<catalog, root_resources, zone, resc_hier, working,
                           store_resc, proj_coll, proj_data, pub_obj, result, err>>

(***************************************************************************)
(* Step 6: the final report query, then metadata.drop_all and the commit.  *)
(***************************************************************************)
GiB == 2^30

\* ROUND((x / 2^30)::NUMERIC, 3) in thousandths: x * 1000 / 2^30 rounded half
\* away from zero.  With x = q * 2^30 + r1 * 2^20 + r0 the quotient of
\* x * 1000 + 2^29 by 2^30 is computed in pieces that stay below 2^31.
Round3GiB(x) ==
    LET Half(y) ==
            LET q  == y \div GiB
                r  == y % GiB
                r1 == r \div 2^20
                r0 == r % 2^20
                c  == (r0 * 1000) \div 2^20
            IN  q * 1000 + ((r1 * 1000 + c + 512) \div 2^10)
    IN  IF x >= 0 THEN Half(x) ELSE 0 - Half(0 - x)

RECURSIVE SumV(_)
SumV(S) ==
    IF S = {} THEN 0
    ELSE LET r == CHOOSE r \in S : TRUE IN r.v + SumV(S \ {r})

\* variant: joined on the project
JoinOn_Proj(a, p) == p.proj = a.proj

\* ON p.data_id = a.data_id
JoinOn(a, p) == p.data_id = a.data_id

\* proj_data AS a LEFT JOIN pub_proj_data AS p ON p.data_id = a.data_id:
\* one row per matching pair, and one row with p NULL for an a without a match.
\* (The second LEFT JOIN, to the subquery pc grouped by proj, matches each row
\* of a with at most one row.)
Joined ==
    { [a |-> j[1], p |-> j[2]] : j \in { q \in proj_data \X pub_proj_data : JoinOn(q[1], q[2]) } }
    \cup
    { [a |-> x, p |-> NULL] : x \in { y \in proj_data : \A q \in pub_proj_data : ~JoinOn(y, q) } }

\* GROUP BY a.proj
Groups == { a.proj : a \in proj_data }

\* SUM(a.data_size)
tot_vol(g) ==
    SumV({ [k |-> j, v |-> j.a.data_size] : j \in { x \in Joined : x.a.proj = g } })

\* COALESCE(SUM(p.data_size), 0)
pub_vol(g) ==
    SumV({ [k |-> j, v |-> j.p.data_size] : j \in { x \in Joined : x.a.proj = g /\ x.p # NULL } })

\* the columns the subquery pc selects from proj_coll
SubqueryColumns == {"proj", "creator", "owner"}

\* STRING_AGG(DISTINCT col, '; ') FILTER (WHERE col IS NOT NULL) ... GROUP BY proj:
\* the distinct values, which the report joins with "; "
StringAgg(col, g) ==
    { r[col] : r \in { x \in proj_coll : x.proj = g /\ x[col] # "NULL" } }

\* variant: the volumes are added
Private_Sum(g) == Round3GiB(tot_vol(g) + pub_vol(g))

Total(g)   == Round3GiB(tot_vol(g))
Public(g)  == Round3GiB(pub_vol(g))
Private(g) == Round3GiB(tot_vol(g) - pub_vol(g))

ReportRow(g) ==
    [Total |-> Total(g), Public |-> Public(g), Private |-> Private(g), Project |-> g,
     Creator |-> StringAgg("creator", g), Owner |-> StringAgg("owner", g)]

\* byte order of the characters of the collection names
CharOrder ==
    <<"-", "/", "1", "2", "X", "_", "a", "b", "c", "d", "e", "h", "j", "m", "n", "o",
      "p", "r", "s", "t", "u", "x", "y", "z">>
Rank(c) == CHOOSE i \in 1..Len(CharOrder) : CharOrder[i] = c

RECURSIVE Less(_, _)
Less(s, t) ==
    IF t = <<>> THEN FALSE
    ELSE IF s = <<>> THEN TRUE
    ELSE IF Head(s) = Head(t) THEN Less(Tail(s), Tail(t))
    ELSE Rank(Head(s)) < Rank(Head(t))

\* ORDER BY proj
ReportRows ==
    LET n == Cardinality(Groups)
        order == CHOOSE f \in [1..n -> Groups] :
                     \A a, b \in 1..n : a < b => Less(f[a], f[b])
    IN  [i \in 1..n |-> ReportRow(order[i])]

\* the query is analysed before it runs: a column that proj_coll does not have
\* is an error.  After the query the temporary tables are dropped and the
\* transaction commits.
FinalReport ==
    /\ UNCHANGED env
    /\ pc = "final_report"
    /\ IF SubqueryColumns \subseteq ProjCollColumns
       THEN /\ result' = <<ReportRows>>
            /\ temp' = {}
            /\ store_resc' = {}
            /\ proj_coll' = {}
            /\ proj_data' = {}
            /\ pub_obj' = {}
            /\ pub_proj_data' = {}
            /\ pc' = "done"
            /\ UNCHANGED <<catalog, root_resources, zone, resc_hier, working, err>>
       ELSE Fail("UndefinedColumn")

\* the connection to the catalog fails while the transaction is open
TransactionSteps ==
    {"create_store_resc", "resc_hier", "create_proj_coll", "create_proj_data",
     "create_pub_obj", "create_pub_proj_data", "final_report"}

DbFailure ==
    /\ UNCHANGED env
    /\ pc \in TransactionSteps
    /\ Fail("OperationalError")

(***************************************************************************)
(* main, after gen_report: the JSON snapshot and the rendering when it     *)
(* returned, the handler of `except Exception' when it raised.             *)
(***************************************************************************)
\* variant: the handler reports the error and lets the process end normally
ExitStatus_AlwaysZero(raised) == 0

\* sys.exit(1) in the handler; falling off the end of main otherwise
ExitStatus(raised) == IF raised THEN 1 ELSE 0

Finish ==
    /\ pc \in {"done", "failed"}
    /\ pc' = "exit"
    /\ IF pc = "done"
       THEN /\ saved' = TRUE
            /\ rendered' = TRUE
            /\ UNCHANGED reported
       ELSE /\ reported' = err
            /\ UNCHANGED <<saved, rendered>>
    /\ exit_status' = ExitStatus(pc = "failed")
    /\ UNCHANGED <<catalog, root_resources, zone, temp, resc_hier, working, tables, result, err,
                   committed, commits, runs, first, trashvars>>

Next ==
    \/ DbFailure
    \/ Finish
    \/ GetLocalZone
    \/ BeginTransaction
    \/ CreateStoreResc
    \/ RecursiveStep
    \/ InsertStoreResc
    \/ CreateProjColl
    \/ CreateProjData
    \/ CreatePubObj
    \/ CreatePubProjData
    \/ FinalReport

Spec == Init /\ [][Next]_vars

\* the runs that explore the resource hierarchy
SpecResolver == InitResolver /\ [][Next]_vars

(***************************************************************************)
(* A caller that runs gen_report again on the same engine.                 *)
(***************************************************************************)
MaxRuns == 2   \* calls of gen_report on one engine

\* gen_report(engine, local_zone, resources) once more: it takes a connection
\* of the engine's pool, whose session keeps what earlier calls left in it, and
\* opens a new transaction, which sees the catalog as committed by then
CallAgain ==
    /\ pc \in {"done", "failed"}
    /\ zone # NoZone
    /\ runs < MaxRuns
    /\ runs' = runs + 1
    /\ first' = IF runs = 1 THEN Outcome ELSE first
    /\ pc' = "begin"
    /\ result' = NoResult
    /\ err' = "none"
    /\ r_zone_main' = committed.r_zone_main
    /\ r_resc_main' = committed.r_resc_main
    /\ r_coll_main' = committed.r_coll_main
    /\ r_data_main' = committed.r_data_main
    /\ r_user_main' = committed.r_user_main
    /\ r_objt_access' = committed.r_objt_access
    /\ UNCHANGED <<root_resources, zone, temp, resc_hier, working, tables,
                   committed, commits, mainvars, trashvars>>

NextTwice == Next \/ CallAgain

\* the catalogs of the runs that are repeated or run beside other sessions
InitSmall == (InitUsers \/ InitScenario \/ InitRoots) /\ Start /\ NoTrash

SpecTwice == InitSmall /\ [][NextTwice]_vars

(***************************************************************************)
(* Other sessions, which commit changes to the catalog while gen_report    *)
(* runs.                                                                   *)
(***************************************************************************)
MaxCommits == 1   \* transactions other sessions commit during the run

\* the transaction has run its first statement, which fixes its snapshot
SnapshotTaken == pc \in TransactionSteps \ {"create_store_resc"}

\* variant: READ COMMITTED, where every statement sees what is committed
TxnSees_ReadCommitted(snap, new) == new

\* SET TRANSACTION ISOLATION LEVEL REPEATABLE READ: once the snapshot is taken
\* the transaction sees the table as of the snapshot
TxnSees(snap, new) == snap

Visible(snap, new) == IF SnapshotTaken THEN TxnSees(snap, new) ELSE new

\* what one transaction of another session may do to the catalog c: grant or
\* revoke a 'public' entry, register or remove a data object, remove a
\* collection, move a resource out of its tree or turn it into a leaf
Changes(c) ==
    LET objs == { d.data_id : d \in c.r_data_main } \cup { x.coll_id : x \in c.r_coll_main }
        acc  == c.r_objt_access
    IN  { [c EXCEPT !.r_objt_access = acc \cup {Ace(o, 31)}] : o \in objs }
        \cup { [c EXCEPT !.r_objt_access = { a \in acc : a.object_id # o \/ a.user_id # 31 }] :
               o \in objs }
        \cup { [c EXCEPT !.r_data_main = @ \cup {Replica(23, x.coll_id, 0, 2)}] :
               x \in c.r_coll_main }
        \cup { [c EXCEPT !.r_data_main = { d \in @ : d.data_id # o }] : o \in objs }
        \cup { [c EXCEPT !.r_coll_main = @ \ {x}] : x \in c.r_coll_main }
        \cup { [c EXCEPT !.r_resc_main = (@ \ {m}) \cup {[m EXCEPT !.resc_parent = ""]}] :
               m \in c.r_resc_main }
        \cup { [c EXCEPT !.r_resc_main = (@ \ {m}) \cup {[m EXCEPT !.resc_net = "host"]}] :
               m \in c.r_resc_main }

ConcurrentCommit ==
    /\ pc \in TransactionSteps
    /\ commits < MaxCommits
    /\ \E new \in Changes(committed) :
          /\ new # committed
          /\ committed' = new
          /\ r_zone_main' = Visible(r_zone_main, new.r_zone_main)
          /\ r_resc_main' = Visible(r_resc_main, new.r_resc_main)
          /\ r_coll_main' = Visible(r_coll_main, new.r_coll_main)
          /\ r_data_main' = Visible(r_data_main, new.r_data_main)
          /\ r_user_main' = Visible(r_user_main, new.r_user_main)
          /\ r_objt_access' = Visible(r_objt_access, new.r_objt_access)
    /\ commits' = commits + 1
    /\ UNCHANGED <<root_resources, zone, pc, temp, resc_hier, working, tables, result, err,
                   runs, first, mainvars, trashvars>>

NextConcurrent == Next \/ ConcurrentCommit

SpecConcurrent == InitSmall /\ [][NextConcurrent]_vars

(***************************************************************************)
(* Properties.                                                             *)
(***************************************************************************)
RootNamed(m) == \E k \in 1..Len(root_resources) : m.resc_name = root_resources[k]
InStore(i)   == \E s \in store_resc : s.id = i
IsChildOf(m, h) == m.resc_parent = ToString(h.resc_id)

\* store_resc holds the resolved resource set
Resolved ==
    pc \in {"create_proj_coll", "create_proj_data", "create_pub_obj",
            "create_pub_proj_data", "final_report"}

\* C1: the resolved resource set is closed: every child of a member whose
\* network attribute is EMPTY_RESC_HOST is a member.
C1_Closed ==
    Resolved =>
        \A h \in r_resc_main :
            (InStore(h.resc_id) /\ h.resc_net = EMPTY_RESC_HOST) =>
                \A m \in r_resc_main : IsChildOf(m, h) => InStore(m.resc_id)

\* a root, a coordinating child of it and a grandchild, neither named as a
\* root, have all been resolved
C1_Witness ==
    /\ Resolved
    /\ \E a, b, c \in r_resc_main :
          /\ RootNamed(a) /\ ~RootNamed(b) /\ ~RootNamed(c)
          /\ IsChildOf(b, a) /\ IsChildOf(c, b)
          /\ a.resc_net = EMPTY_RESC_HOST /\ b.resc_net = EMPTY_RESC_HOST
          /\ c.resc_net # EMPTY_RESC_HOST
          /\ InStore(a.resc_id) /\ InStore(b.resc_id) /\ InStore(c.resc_id)

\* p is a chain of resources from a named root in which every resource but the
\* last is a coordinating resource and the parent of the next
IsChain(p) ==
    /\ RootNamed(p[1])
    /\ \A k \in 1..(Len(p) - 1) :
          IsChildOf(p[k + 1], p[k]) /\ p[k].resc_net = EMPTY_RESC_HOST

Reachable(m) ==
    \E n \in 1..Cardinality(r_resc_main) :
        \E p \in [1..n -> r_resc_main] : IsChain(p) /\ p[n] = m

\* C2: the resolved set holds nothing beyond the closure: every member is a
\* named root or the child of a member whose network attribute is
\* EMPTY_RESC_HOST, and is reached from a named root through such members
\* only; no resource is added through a member that is a real endpoint.
C2_NothingBeyond ==
    Resolved =>
        \A s \in store_resc :
            \E m \in r_resc_main :
                /\ m.resc_id = s.id
                /\ \/ RootNamed(m)
                   \/ \E h \in r_resc_main :
                         /\ IsChildOf(m, h)
                         /\ InStore(h.resc_id)
                         /\ h.resc_net = EMPTY_RESC_HOST
                /\ Reachable(m)

\* a member that is a real endpoint has a child that was left out, while another
\* resource was added through a coordinating member
C2_Witness ==
    /\ Resolved
    /\ \E h, m \in r_resc_main :
          /\ InStore(h.resc_id) /\ h.resc_net # EMPTY_RESC_HOST
          /\ IsChildOf(m, h) /\ ~InStore(m.resc_id)
    /\ \E h, m \in r_resc_main :
          /\ InStore(h.resc_id) /\ h.resc_net = EMPTY_RESC_HOST
          /\ IsChildOf(m, h) /\ ~RootNamed(m) /\ InStore(m.resc_id)

\* C3: resolution terminates on every resource table, cyclic ones included: an
\* iteration never takes up a resource that is already in the result, and it
\* either adds a resource to the result or leaves the working table empty, which
\* ends the query.  The result is a subset of the finite resource table, so the
\* iterations are at most as many as there are resources.
C3_Terminates ==
    [][(pc = "resc_hier" /\ pc' = "resc_hier") =>
          /\ working' \cap resc_hier = {}
          /\ resc_hier' = resc_hier \cup working'
          /\ working' = {} \/ Cardinality(resc_hier') > Cardinality(resc_hier)
          /\ Cardinality(resc_hier') <= Cardinality(r_resc_main)]_vars

\* a resource that is its own parent and two resources that are each other's
\* parent have been resolved
C3_Witness ==
    /\ Resolved
    /\ \E a \in r_resc_main :
          IsChildOf(a, a) /\ a.resc_net = EMPTY_RESC_HOST /\ InStore(a.resc_id)
    /\ \E b, c \in r_resc_main :
          /\ b # c /\ IsChildOf(b, c) /\ IsChildOf(c, b)
          /\ b.resc_net = EMPTY_RESC_HOST /\ c.resc_net = EMPTY_RESC_HOST
          /\ InStore(b.resc_id) /\ InStore(c.resc_id)

HasPublicAce(i) ==
    \E a \in r_objt_access, u \in r_user_main :
        u.user_name = PUBLIC /\ a.user_id = u.user_id /\ a.object_id = i

\* C5: a data object counts as public only if both the object and its
\* collection have a 'public' access entry: every row of pub_proj_data, and
\* every row the report query adds to a public volume, is such an object.
C5_PublicNeedsBoth ==
    pc = "final_report" =>
        /\ \A p \in pub_proj_data :
              \E d \in r_data_main :
                  /\ d.data_id = p.data_id /\ d.data_repl_num = p.rid
                  /\ HasPublicAce(d.data_id) /\ HasPublicAce(d.coll_id)
        /\ \A j \in Joined :
              j.p # NULL => HasPublicAce(j.a.data_id) /\ HasPublicAce(j.a.coll_id)

\* one counted object is public in a collection that is not, one is not public
\* in a public collection (both count in the total only), one is public in a
\* public collection
C5_Witness ==
    /\ pc = "final_report"
    /\ \E a \in proj_data :
          /\ HasPublicAce(a.data_id) /\ ~HasPublicAce(a.coll_id)
          /\ \A p \in pub_proj_data : p.data_id # a.data_id
          /\ \E j \in Joined : j.a = a /\ j.p = NULL
    /\ \E a \in proj_data :
          /\ ~HasPublicAce(a.data_id) /\ HasPublicAce(a.coll_id)
          /\ \A p \in pub_proj_data : p.data_id # a.data_id
          /\ \E j \in Joined : j.a = a /\ j.p = NULL
    /\ \E a \in proj_data :
          /\ HasPublicAce(a.data_id) /\ HasPublicAce(a.coll_id)
          /\ \E p \in pub_proj_data : p.data_id = a.data_id

\* C6: for every project of the report query Total >= Public >= 0 and
\* Private >= 0, in bytes and in the rounded values.
C6_TotalGePublic ==
    pc = "final_report" =>
        \A g \in Groups :
            /\ tot_vol(g) >= pub_vol(g) /\ pub_vol(g) >= 0
            /\ Total(g) >= Public(g) /\ Public(g) >= 0
            /\ Private(g) >= 0

\* a project with part of its volume public
C6_Witness ==
    /\ pc = "final_report"
    /\ \E g \in Groups : Total(g) > Public(g) /\ Public(g) > 0 /\ Private(g) > 0

\* C7 as claimed: the reported Private equals the reported Total minus the
\* reported Public.
C7_PrivateIsDifference ==
    pc = "final_report" =>
        \A g \in Groups : Private(g) = Total(g) - Public(g)

\* C7: the reported Private is the byte difference converted and rounded on its
\* own; it differs from the reported Total minus the reported Public by at
\* most 0.001.
C7_PrivateWithinOneUnit ==
    pc = "final_report" =>
        \A g \in Groups :
            LET diff == Private(g) - (Total(g) - Public(g))
            IN  diff \in {0 - 1, 0, 1}

\* a project whose Private is not Total minus Public
C7_Witness ==
    /\ pc = "final_report"
    /\ \E g \in Groups : Public(g) > 0 /\ Private(g) # Total(g) - Public(g)

\* C8 as claimed: no data object is counted twice.  Each stored row of a data
\* object in proj_data adds its size at most once to the total and at most once
\* to the public volume, and the rows of one data object count for one project.
C8_NoDoubleCount ==
    pc = "final_report" =>
        \A a \in proj_data :
            /\ Cardinality({ j \in Joined : j.a = a }) <= 1
            /\ \A b \in proj_data : b.data_id = a.data_id => b.proj = a.proj

ReservedPath == Below(SharedRoot, Commons_repo)

\* the path is the reserved collection or lies below it
AtOrBelowReserved(name) ==
    \/ name = ReservedPath
    \/ /\ Len(name) > Len(ReservedPath)
       /\ SubSeq(name, 1, Len(ReservedPath) + 1) = ReservedPath \o <<"/">>

Classification ==
    pc \in {"create_proj_data", "create_pub_obj", "create_pub_proj_data", "final_report"}

\* C9: a collection at or below the reserved path is in no project, and none of
\* its data objects is counted, public entries or not; the sibling
\* commons_repo2 is classified as a project of its own.
C9_ReservedExcluded ==
    Classification =>
        /\ \A c \in r_coll_main :
              AtOrBelowReserved(c.coll_name) =>
                  /\ \A r \in proj_coll : r.coll_id # c.coll_id
                  /\ \A a \in proj_data : a.coll_id # c.coll_id
                  /\ \A d \in r_data_main :
                        d.coll_id = c.coll_id =>
                            /\ \A a \in proj_data : a.data_id # d.data_id
                            /\ \A q \in pub_proj_data : q.data_id # d.data_id
        /\ \A r \in proj_coll : r.proj # Commons_repo
        /\ \A c \in r_coll_main :
              c.coll_name = Below(SharedRoot, Commons_repo \o <<"2">>) =>
                  [proj |-> Commons_repo \o <<"2">>, coll_id |-> c.coll_id] \in proj_coll

\* a public data object in a public collection below the reserved path, on a
\* selected resource, is left out while an object of commons_repo2 is counted
C9_Witness ==
    /\ pc = "final_report"
    /\ \E c \in r_coll_main, d \in r_data_main :
          /\ AtOrBelowReserved(c.coll_name) /\ c.coll_name # ReservedPath
          /\ d.coll_id = c.coll_id
          /\ HasPublicAce(c.coll_id) /\ HasPublicAce(d.data_id)
          /\ InStore(d.resc_id)
    /\ \E a \in proj_data : a.proj = Commons_repo \o <<"2">>

DataStage == pc \in {"create_pub_obj", "create_pub_proj_data", "final_report"}

\* C10: every row of proj_data is a replica stored on a resolved resource; a
\* replica on another resource is in neither proj_data nor pub_proj_data.
C10_OnlyResolvedResources ==
    DataStage =>
        /\ \A a \in proj_data :
              \E d \in r_data_main :
                  /\ d.data_id = a.data_id /\ d.data_repl_num = a.rid
                  /\ d.coll_id = a.coll_id /\ d.data_size = a.data_size
                  /\ InStore(d.resc_id)
        /\ \A d \in r_data_main :
              ~InStore(d.resc_id) =>
                  /\ \A a \in proj_data : ~(a.data_id = d.data_id /\ a.rid = d.data_repl_num)
                  /\ \A q \in pub_proj_data : ~(q.data_id = d.data_id /\ q.rid = d.data_repl_num)

\* an object of a classified collection stored outside the resolved set is left
\* out, although it is public, while another object is counted
C10_Witness ==
    /\ pc = "final_report"
    /\ \E d \in r_data_main :
          /\ ~InStore(d.resc_id)
          /\ \E r \in proj_coll : r.coll_id = d.coll_id
          /\ HasPublicAce(d.data_id) /\ HasPublicAce(d.coll_id)
          /\ \A a \in proj_data : a.data_id # d.data_id
    /\ proj_data # {}

\* the run of gen_report has ended for a reason other than a lost connection
Ended == pc \in {"done", "failed", "exit"} /\ err # "OperationalError"

\* the catalog and root list of InitScenario
IsScenario == root_resources = <<"resA">>

\* C11: from the scenario catalog (root resA with its leaf, project proj1 owned
\* by alice with one public object of 2^30 bytes on the leaf) gen_report
\* returns exactly one row: Total 1.000, Public 1.000, Private 0.000, Project
\* proj1, Owner alice.
C11_ScenarioRow ==
    (IsScenario /\ Ended) =>
        /\ result # NoResult
        /\ Len(result[1]) = 1
        /\ result[1][1].Total = 1000
        /\ result[1][1].Public = 1000
        /\ result[1][1].Private = 0
        /\ result[1][1].Project = Proj1
        /\ result[1][1].Owner = {"alice"}

NoTableLeft ==
    /\ temp = {}
    /\ store_resc = {} /\ proj_coll = {} /\ proj_data = {}
    /\ pub_obj = {} /\ pub_proj_data = {}

\* C12: when a run of gen_report has ended, by returning or by failing at any
\* stage, none of store_resc, proj_coll, proj_data, pub_obj, pub_proj_data
\* exists any more, and the next run of gen_report on the engine starts in a
\* session that holds none of them.
C12_NoTableSurvives ==
    /\ pc \in {"done", "failed", "exit"} => NoTableLeft
    /\ pc = "begin" => NoTableLeft

\* a second run is about to start after a first one that had created all five
\* tables when it failed
C12_Witness ==
    /\ runs = 2
    /\ pc = "begin"
    /\ first.err = "UndefinedColumn"
    /\ NoTableLeft

\* C13: a failure at any stage aborts the whole computation: gen_report returns
\* no rows, no snapshot of the report is saved and nothing is rendered, main
\* reports the error that was raised and the process exits with status 1; main
\* does not run the pipeline again.
C13_FailureAborts ==
    /\ [](pc = "failed" => (err # "none" /\ result = NoResult /\ ~saved /\ ~rendered))
    /\ []((pc = "exit" /\ err # "none") =>
            /\ result = NoResult
            /\ ~saved /\ ~rendered
            /\ reported = err
            /\ exit_status = 1)
    /\ [][pc = "failed" => pc' \in {"failed", "exit"}]_vars
    /\ [][pc = "exit" => pc' = "exit"]_vars

\* the process has exited after the fourth stage failed on two 'public' users
C13_Witness ==
    /\ pc = "exit"
    /\ err = "CardinalityViolation"
    /\ reported = "CardinalityViolation"
    /\ exit_status = 1
    /\ result = NoResult /\ ~saved /\ ~rendered

C14_WitnessAfterLostConnection ==
    /\ runs = 2
    /\ pc = "failed"
    /\ first.err = "OperationalError"
    /\ err = "UndefinedColumn"

\* C15: the stages of one run of gen_report read one catalog snapshot: whatever
\* other sessions commit while the run is between two stages, every table
\* built so far is what its stage's query yields on the catalog that the
\* transaction still sees, so the data the report is computed from is that of
\* one state of the catalog.
C15_OneSnapshot ==
    /\ Resolved =>
          { s.id : s \in store_resc } = { m.resc_id : m \in { x \in r_resc_main : Reachable(x) } }
    /\ Classification => proj_coll = ProjCollRows
    /\ DataStage => proj_data = ProjDataRows
    /\ pc \in {"create_pub_proj_data", "final_report"} => pub_obj = PubObjRows
    /\ pc = "final_report" => pub_proj_data = PubProjDataRows

\* another session has committed, between two stages, a change to rows that
\* the run had already read, and the run has built all its tables
C15_Witness ==
    /\ pc = "final_report"
    /\ commits = 1
    /\ committed # Committed
    /\ committed.r_data_main # r_data_main
    /\ proj_data # {}

\* the project a classified collection belongs to
ProjectOf(c) == RegexpReplace(c.coll_name, RegexpHead(zone))

\* the replicas the report counts for project g: in a classified collection of
\* g, on a resource reached from a named root
CountedReplicas(g) ==
    { d \in r_data_main :
        /\ \E c \in r_coll_main : c.coll_id = d.coll_id /\ Classified(c) /\ ProjectOf(c) = g
        /\ \E m \in r_resc_main : m.resc_id = d.resc_id /\ Reachable(m) }

\* the projects that have data to report
ReportedProjects ==
    { ProjectOf(c) : c \in { x \in r_coll_main : Classified(x) /\ CountedReplicas(ProjectOf(x)) # {} } }

\* no counted object of g is public together with its collection
NoPublicData(g) ==
    \A d \in CountedReplicas(g) : ~(HasPublicAce(d.data_id) /\ HasPublicAce(d.coll_id))

\* C16: a project none of whose data objects qualifies as public, in a catalog
\* with or without 'public' entries, is not an error: the run completes and
\* the project's row is in the report with Public 0 and Private equal to Total.
C16_ZeroPublicRow ==
    (pc = "exit" /\ zone # NoZone /\ err # "OperationalError"
        /\ Cardinality(PublicUserIds) <= 1) =>
        \A g \in ReportedProjects :
            NoPublicData(g) =>
                /\ err = "none"
                /\ result # NoResult
                /\ \E k \in 1..Len(result[1]) :
                      /\ result[1][k].Project = g
                      /\ result[1][k].Public = 0
                      /\ result[1][k].Private = result[1][k].Total

(***************************************************************************)
(* ensure_trash_ts.py: add_trash_timestamp walks the trash collection and  *)
(* gives the AVU ipc::trash_timestamp to the entries that lack it.         *)
(* An entry is [path, parent, name, kind]; metadata maps a path to the set *)
(* of AVUs [name, value] of the entry.                                     *)
(***************************************************************************)
MaxClock == 3   \* latest second time.time() reaches
MaxWalks == 2   \* runs of add_trash_timestamp

TRASH_TIMESTAMP == "ipc::trash_timestamp"

TrashPath == "/z/trash"

Entry(parent, name, kind) ==
    [path |-> parent \o "/" \o name, parent |-> parent, name |-> name, kind |-> kind]

\* the trash collection; home with one user's trash, which holds a collection
\* (with a collection inside it) and a data object; a collection beside home
\* with a data object inside it
TrashTree ==
    { Entry("/z", "trash", "coll"),
      Entry("/z/trash", "home", "coll"),
      Entry("/z/trash/home", "u1", "coll"),
      Entry("/z/trash/home/u1", "c", "coll"),
      Entry("/z/trash/home/u1", "o", "obj"),
      Entry("/z/trash/home/u1/c", "d", "coll"),
      Entry("/z/trash", "orphan", "coll"),
      Entry("/z/trash/orphan", "f", "obj") }

Paths == { e.path : e \in TrashTree }

\* col.subcollections, col.data_objects
Subcollections(col) == { e \in entries : e.parent = col.path /\ e.kind = "coll" }
DataObjects(col)    == { e \in entries : e.parent = col.path /\ e.kind = "obj" }

\* the entries the loops of add_trash_timestamp hand to add_coll_avu and
\* add_obj_avu, starting from the collection coll_in_trash
Targets(coll_in_trash) ==
    UNION { IF coll_trash.name = "home"
            THEN UNION { Subcollections(user_collections) \cup DataObjects(user_collections) :
                         user_collections \in Subcollections(coll_trash) }
            ELSE {coll_trash} :
            coll_trash \in Subcollections(coll_in_trash) }

\* col.metadata.keys()
Keys(md) == { a.name : a \in md }

\* col.metadata[name] = meta: the AVUs of that name are replaced by meta
SetItem(md, meta) == { a \in md : a.name # meta.name } \cup {meta}

\* iRODSMeta('ipc::trash_timestamp', "0" + str(int(epoch_time)))
TimestampMeta(epoch_time) == [name |-> TRASH_TIMESTAMP, value |-> "0" \o ToString(epoch_time)]

\* variant: the AVU is set without looking at the keys
add_coll_avu_Always(md, now) == SetItem(md, TimestampMeta(now))

add_coll_avu(md, now) ==
    IF TRASH_TIMESTAMP \notin Keys(md) THEN SetItem(md, TimestampMeta(now)) ELSE md

add_obj_avu(md, now) ==
    IF TRASH_TIMESTAMP \notin Keys(md) THEN SetItem(md, TimestampMeta(now)) ELSE md

\* sess.collections.get(trash_path); CollectionDoesNotExist ends the run
StartWalk ==
    /\ sess = "idle"
    /\ walks < MaxWalks
    /\ IF \E e \in entries : e.path = TrashPath
       THEN /\ todo' = Targets(CHOOSE e \in entries : e.path = TrashPath)
            /\ sess' = "walking"
            /\ UNCHANGED walks
       ELSE /\ walks' = walks + 1
            /\ UNCHANGED <<todo, sess>>
    /\ UNCHANGED <<entries, metadata, clock, report>>

\* the loops reach the next entry
Visit ==
    /\ sess = "walking"
    /\ \E e \in todo :
          /\ todo' = todo \ {e}
          /\ metadata' = [metadata EXCEPT ![e.path] =
                            IF e.kind = "coll" THEN add_coll_avu(@, clock)
                                               ELSE add_obj_avu(@, clock)]
    /\ UNCHANGED <<entries, clock, sess, walks, report>>

\* the loops are exhausted
EndWalk ==
    /\ sess = "walking"
    /\ todo = {}
    /\ sess' = "idle"
    /\ walks' = walks + 1
    /\ UNCHANGED <<entries, metadata, clock, todo, report>>

\* time passes
Tick ==
    /\ clock < MaxClock
    /\ clock' = clock + 1
    /\ UNCHANGED <<entries, metadata, sess, todo, walks, report>>

\* a user removes something, which moves it into the trash without a timestamp
MoveToTrash ==
    /\ \E e \in TrashTree \ entries :
          /\ \E p \in entries : p.path = e.parent
          /\ entries' = entries \cup {e}
    /\ UNCHANGED <<metadata, clock, sess, todo, walks, report>>

NextTrash ==
    \/ StartWalk
    \/ Visit
    \/ EndWalk
    \/ Tick
    \/ MoveToTrash

\* the trash as the utility finds it: the whole tree, the tree without the
\* user's trash, or no trash collection at all; some entries carry a timestamp
\* already, and one carries another AVU
InitTrash ==
    /\ entries \in { TrashTree,
                     { e \in TrashTree : e.path \in {"/z/trash", "/z/trash/home"} },
                     {} }
    /\ \E tagged \in SUBSET { e.path : e \in entries } :
          metadata = [p \in Paths |->
                        (IF p \in tagged THEN {TimestampMeta(0)} ELSE {})
                        \cup (IF p = "/z/trash/home/u1/o" /\ p \in { e.path : e \in entries }
                              THEN {[name |-> "note", value |-> "x"]} ELSE {})]
    /\ clock = 1
    /\ sess = "idle"
    /\ todo = {}
    /\ walks = 0
    /\ InitScenario /\ Start

SpecTrash == InitTrash /\ [][NextTrash]_vars

\* the timestamps of an entry
Timestamps(md) == { a \in md : a.name = TRASH_TIMESTAMP }

\* C17: the trash utility never changes a timestamp that exists: in every step
\* of every run an entry that carries ipc::trash_timestamp keeps exactly the
\* value it carries, whether an earlier run set it or it was there before the
\* first run.
C17_TimestampKept ==
    [][\A p \in Paths :
         Timestamps(metadata[p]) # {} => Timestamps(metadata'[p]) = Timestamps(metadata[p])]_vars

\* a second run is under way two seconds after the first: it has passed an
\* entry that was tagged before the first run, whose value is unchanged, and it
\* has still to reach an entry that the first run tagged
C17_Witness ==
    /\ walks = 1
    /\ sess = "walking"
    /\ clock = 3
    /\ \E e \in entries \ todo :
          /\ e \in Targets(CHOOSE t \in entries : t.path = TrashPath)
          /\ Timestamps(metadata[e.path]) = {TimestampMeta(0)}
    /\ \E e \in todo : Timestamps(metadata[e.path]) = {TimestampMeta(1)}

=============================================================================
